---- MODULE Spec2Model ----
(***************************************************************************)
(* WS2812 (NeoPixel) driver of the CH552G mini keyboard: src/ws2812.c,     *)
(* src/ws2812.h.  The frame buffer, the transmit routine WS2812_update     *)
(* statement by statement, and the assembly of WS2812_sendByte instruction *)
(* by instruction, on a single execution context with an interrupt enable  *)
(* flag.                                                                   *)
(*                                                                         *)
(* Time is counted in clock cycles of the 16 MHz core.  A pin write takes  *)
(* effect when its instruction completes, so the HIGH time of a pulse is   *)
(* the sum of the cycles of the instructions executed while the pin is 1.  *)
(* C statements are charged 0 cycles (their compiled length is not in the  *)
(* source), which makes every measured LOW time a lower bound.             *)
(***************************************************************************)
EXTENDS Integers, Sequences, FiniteSets, TLC

VARIABLES
    WS2812_buffer,   \* uint8_t WS2812_buffer[9], indexed by offset 0..8
    other,           \* offsets (relative to WS2812_buffer) outside the buffer that were written
    buffer_ptr,      \* static uint8_t *buffer_ptr, as an offset from WS2812_buffer; -1 is NULL
    pinOutput,       \* TRUE once pinMode(WS2812_PIN, OUTPUT) has run
    WS2812_PIN_BIT,  \* level of P3.4
    EA,              \* global interrupt enable
    pc,              \* position of the single execution context
    stack,           \* return labels of the calls in progress
    i,               \* loop counter of WS2812_update
    acc, r7, cy, dpl,\* 8051 registers used by WS2812_sendByte
    sinceEdge,       \* cycles since the last edge of the pin, saturating at LatchCycles
    symbols,         \* HIGH time (cycles) of every pulse of the current frame
    rises,           \* rising edges of the pin in the current frame
    sent,            \* bytes handed to WS2812_sendByte in the current frame
    prevFrame,       \* symbols of the last completed frame; <<>> once the buffer is written
    sentBefore,      \* TRUE once some bit symbol has been emitted
    eaEntry,         \* EA at entry of the WS2812_update in progress
    lastCall,        \* the last API call made by the caller, with its arguments
    bufBefore,       \* WS2812_buffer when lastCall was made
    color,           \* the r, g, b that getColor wrote through its pointers
    palRead          \* the index getColor read COLOR_PALETTE at; -1 before any read

vars == <<WS2812_buffer, other, buffer_ptr, pinOutput, WS2812_PIN_BIT, EA, pc, stack,
          i, acc, r7, cy, dpl, sinceEdge, symbols, rises, sent, prevFrame, sentBefore,
          eaEntry, lastCall, bufBefore, color, palRead>>

----------------------------------------------------------------------------
(* Program constants *)

WS2812_COUNT == 3

BufLen == 3 * WS2812_COUNT

FrameBits == 8 * BufLen

CyclesPerUs == 16

LatchUs == 300

LatchCycles == LatchUs * CyclesPerUs

(* Cycle counts documented beside each instruction of WS2812_sendByte. *)
CLK == [mov_r7 |-> 2, xch |-> 2, rlc |-> 1, setb |-> 2, movc |-> 2, nop |-> 1,
        clr |-> 2, djnz_loop |-> 4, djnz_done |-> 2]

(* The timing the header comment of WS2812_sendByte documents: cycles per bit,
   HIGH and LOW cycles of a 1 and of a 0, and the WS2812 HIGH times in ns. *)
DocBitCycles == 18

DocT1H == 10

DocT1L == 8

DocT0H == 4

DocT0L == 14

T0H_ns == 400

T1H_ns == 800

TolHigh_ns == 150

----------------------------------------------------------------------------
(* Bounds of the model *)

\* setPixel is called with the first NumColors of TestColors
NumColors == 2

\* setPixel is called with pixel 0..MaxPixelArg and with 255
MaxPixelArg == 4

\* cycles one interrupt service takes away from the main context
IsrCycles == 2400

TestColors == << <<100, 0, 0>>, <<1, 128, 255>>, <<85, 170, 15>>, <<254, 3, 64>> >>

Min(x, y) == IF x < y THEN x ELSE y

Colors == {TestColors[k] : k \in 1..Min(NumColors, Len(TestColors))}

PixelArgs == (0..Min(MaxPixelArg, 255)) \cup {255}

----------------------------------------------------------------------------
(* Helpers *)

Zeros == [k \in 0..(BufLen - 1) |-> 0]

Bit(d, k) == (d \div (2 ^ k)) % 2

Tick(c) == Min(sinceEdge + c, LatchCycles)

\* *ptr = v, for a pointer given as an offset from WS2812_buffer
Store(buf, oth, ptr, v) ==
    IF ptr \in 0..(BufLen - 1)
    THEN <<[buf EXCEPT ![ptr] = v], oth>>
    ELSE <<buf, oth \cup {ptr}>>

\* the values *ptr can read
Load(ptr) ==
    IF ptr \in 0..(BufLen - 1) THEN {WS2812_buffer[ptr]} ELSE {0, 255}

\* an instruction of sendByte that drives the pin to v and takes c cycles
PinWrite(v, c) ==
    /\ WS2812_PIN_BIT' = v
    /\ IF v = WS2812_PIN_BIT
       THEN /\ sinceEdge' = Tick(c)
            /\ UNCHANGED <<symbols, rises, sentBefore>>
       ELSE /\ sinceEdge' = 0
            /\ IF v = 0
               THEN /\ symbols' = Append(symbols, Tick(c))
                    /\ sentBefore' = TRUE
                    /\ UNCHANGED rises
               ELSE /\ rises' = rises + 1
                    /\ UNCHANGED <<symbols, sentBefore>>

Return ==
    /\ pc' = Head(stack)
    /\ stack' = Tail(stack)

memVars == <<WS2812_buffer, other>>
regVars == <<acc, r7, cy, dpl>>
pinVars == <<WS2812_PIN_BIT, sinceEdge, symbols, rises, sentBefore>>
callVars == <<lastCall, bufBefore>>
colVars == <<color, palRead>>

----------------------------------------------------------------------------
(* State at power-on: statics are zero, the pin is not yet an output and   *)
(* its level is whatever the reset state of the port gives.                *)

Init ==
    /\ WS2812_buffer = Zeros
    /\ other = {}
    /\ buffer_ptr = -1
    /\ pinOutput = FALSE
    /\ WS2812_PIN_BIT \in {0, 1}
    /\ EA = 1
    /\ pc = "idle"
    /\ stack = <<>>
    /\ i = 0
    /\ acc = 0 /\ r7 = 0 /\ cy = 0 /\ dpl = 0
    /\ sinceEdge = 0
    /\ symbols = <<>>
    /\ rises = 0
    /\ sent = <<>>
    /\ prevFrame = <<>>
    /\ sentBefore = FALSE
    /\ eaEntry = 1
    /\ lastCall = <<"reset">>
    /\ bufBefore = Zeros
    /\ color = <<0, 0, 0>>
    /\ palRead = -1

----------------------------------------------------------------------------
(* WS2812_sendByte: one action per instruction *)

SbLabels == {"sb_mov_r7", "sb_xch", "sb_rlc", "sb_setb", "sb_movc", "sb_nop1", "sb_nop2",
             "sb_nop3", "sb_nop4", "sb_nop5", "sb_nop6", "sb_clr", "sb_nop7", "sb_nop8",
             "sb_djnz", "sb_ret"}

\* the instruction that follows each nop
NopNext == [sb_nop1 |-> "sb_nop2", sb_nop2 |-> "sb_nop3", sb_nop3 |-> "sb_nop4",
            sb_nop4 |-> "sb_nop5", sb_nop5 |-> "sb_nop6", sb_nop6 |-> "sb_clr",
            sb_nop7 |-> "sb_nop8", sb_nop8 |-> "sb_djnz"]

\* mov r7, #8
Sb_mov_r7 ==
    /\ pc = "sb_mov_r7"
    /\ r7' = 8
    /\ sinceEdge' = Tick(CLK.mov_r7)
    /\ pc' = "sb_xch"
    /\ UNCHANGED <<memVars, buffer_ptr, pinOutput, WS2812_PIN_BIT, EA, stack, i, acc, cy,
                   dpl, symbols, rises, sent, prevFrame, sentBefore, eaEntry, callVars, colVars>>

\* xch a, dpl
Sb_xch ==
    /\ pc = "sb_xch"
    /\ acc' = dpl
    /\ dpl' = acc
    /\ sinceEdge' = Tick(CLK.xch)
    /\ pc' = "sb_rlc"
    /\ UNCHANGED <<memVars, buffer_ptr, pinOutput, WS2812_PIN_BIT, EA, stack, i, r7, cy,
                   symbols, rises, sent, prevFrame, sentBefore, eaEntry, callVars, colVars>>

\* mutant: rrc a, which shifts the least significant bit out first
Sb_rrc ==
    /\ pc = "sb_rlc"
    /\ cy' = Bit(acc, 0)
    /\ acc' = (acc \div 2) + 128 * cy
    /\ sinceEdge' = Tick(CLK.rlc)
    /\ pc' = "sb_setb"
    /\ UNCHANGED <<memVars, buffer_ptr, pinOutput, WS2812_PIN_BIT, EA, stack, i, r7, dpl,
                   symbols, rises, sent, prevFrame, sentBefore, eaEntry, callVars, colVars>>

\* rlc a: rotate the accumulator left through the carry
Sb_rlc ==
    /\ pc = "sb_rlc"
    /\ cy' = Bit(acc, 7)
    /\ acc' = (2 * acc + cy) % 256
    /\ sinceEdge' = Tick(CLK.rlc)
    /\ pc' = "sb_setb"
    /\ UNCHANGED <<memVars, buffer_ptr, pinOutput, WS2812_PIN_BIT, EA, stack, i, r7, dpl,
                   symbols, rises, sent, prevFrame, sentBefore, eaEntry, callVars, colVars>>

\* setb _WS2812_PIN_BIT
Sb_setb ==
    /\ pc = "sb_setb"
    /\ PinWrite(1, CLK.setb)
    /\ pc' = "sb_movc"
    /\ UNCHANGED <<memVars, buffer_ptr, pinOutput, EA, stack, i, regVars, sent, prevFrame,
                   eaEntry, callVars, colVars>>

\* mutant: a 0 bit branches past the delay (jnc to the end of the loop body)
Sb_movc_branch ==
    /\ pc = "sb_movc"
    /\ PinWrite(cy, CLK.movc)
    /\ pc' = IF cy = 0 THEN "sb_nop7" ELSE "sb_nop1"
    /\ UNCHANGED <<memVars, buffer_ptr, pinOutput, EA, stack, i, regVars, sent, prevFrame,
                   eaEntry, callVars, colVars>>

\* mov _WS2812_PIN_BIT, c
Sb_movc ==
    /\ pc = "sb_movc"
    /\ PinWrite(cy, CLK.movc)
    /\ pc' = "sb_nop1"
    /\ UNCHANGED <<memVars, buffer_ptr, pinOutput, EA, stack, i, regVars, sent, prevFrame,
                   eaEntry, callVars, colVars>>

\* nop (six before clr, two after)
Sb_nop ==
    /\ pc \in DOMAIN NopNext
    /\ sinceEdge' = Tick(CLK.nop)
    /\ pc' = NopNext[pc]
    /\ UNCHANGED <<memVars, buffer_ptr, pinOutput, WS2812_PIN_BIT, EA, stack, i, regVars,
                   symbols, rises, sent, prevFrame, sentBefore, eaEntry, callVars, colVars>>

\* mutant: the clr is missing, only its time passes
Sb_clr_missing ==
    /\ pc = "sb_clr"
    /\ sinceEdge' = Tick(CLK.clr)
    /\ pc' = "sb_nop7"
    /\ UNCHANGED <<memVars, buffer_ptr, pinOutput, WS2812_PIN_BIT, EA, stack, i, regVars,
                   symbols, rises, sent, prevFrame, sentBefore, eaEntry, callVars, colVars>>

\* clr _WS2812_PIN_BIT
Sb_clr ==
    /\ pc = "sb_clr"
    /\ PinWrite(0, CLK.clr)
    /\ pc' = "sb_nop7"
    /\ UNCHANGED <<memVars, buffer_ptr, pinOutput, EA, stack, i, regVars, sent, prevFrame,
                   eaEntry, callVars, colVars>>

\* djnz r7, 01$
Sb_djnz ==
    /\ pc = "sb_djnz"
    /\ r7' = (r7 + 255) % 256
    /\ IF r7' # 0
       THEN pc' = "sb_rlc" /\ sinceEdge' = Tick(CLK.djnz_loop)
       ELSE pc' = "sb_ret" /\ sinceEdge' = Tick(CLK.djnz_done)
    /\ UNCHANGED <<memVars, buffer_ptr, pinOutput, WS2812_PIN_BIT, EA, stack, i, acc, cy,
                   dpl, symbols, rises, sent, prevFrame, sentBefore, eaEntry, callVars, colVars>>

\* the return at the closing brace
Sb_ret ==
    /\ pc = "sb_ret"
    /\ Return
    /\ UNCHANGED <<memVars, buffer_ptr, pinOutput, EA, i, regVars, pinVars, sent,
                   prevFrame, eaEntry, callVars, colVars>>

WS2812_sendByte ==
    \/ Sb_mov_r7
    \/ Sb_xch
    \/ Sb_rlc
    \/ Sb_setb
    \/ Sb_movc
    \/ Sb_nop
    \/ Sb_clr
    \/ Sb_djnz
    \/ Sb_ret

----------------------------------------------------------------------------
(* WS2812_update: one action per statement *)

UpdLabels == {"upd_ptr", "upd_noint", "upd_for", "upd_test", "upd_call", "upd_inc",
              "upd_int", "upd_delay", "upd_ret"}

\* mutant: the call is missing, EA stays as it is
NoInterrupts_skipped == EA

\* noInterrupts()
NoInterrupts == 0

\* interrupts()
Interrupts == 1

\* mutant: no latch delay
DelayMicroseconds_none(us) == sinceEdge

\* delayMicroseconds(us) with the line at rest
DelayMicroseconds(us) == Tick(us * CyclesPerUs)

\* mutant: buffer_ptr is not set back to the start of the buffer
Upd_ptr_noReset ==
    /\ pc = "upd_ptr"
    /\ eaEntry' = EA
    /\ symbols' = <<>>
    /\ rises' = 0
    /\ sent' = <<>>
    /\ pc' = "upd_noint"
    /\ UNCHANGED <<memVars, buffer_ptr, pinOutput, WS2812_PIN_BIT, EA, stack, i, regVars,
                   sinceEdge, prevFrame, sentBefore, callVars, colVars>>

\* buffer_ptr = WS2812_buffer;
Upd_ptr ==
    /\ pc = "upd_ptr"
    /\ buffer_ptr' = 0
    /\ eaEntry' = EA
    /\ symbols' = <<>>
    /\ rises' = 0
    /\ sent' = <<>>
    /\ pc' = "upd_noint"
    /\ UNCHANGED <<memVars, pinOutput, WS2812_PIN_BIT, EA, stack, i, regVars, sinceEdge,
                   prevFrame, sentBefore, callVars, colVars>>

\* noInterrupts();
Upd_noInterrupts ==
    /\ pc = "upd_noint"
    /\ EA' = NoInterrupts
    /\ pc' = "upd_for"
    /\ UNCHANGED <<memVars, buffer_ptr, pinOutput, stack, i, regVars, pinVars, sent,
                   prevFrame, eaEntry, callVars, colVars>>

\* for(uint8_t i = 0; ...
Upd_for ==
    /\ pc = "upd_for"
    /\ i' = 0
    /\ pc' = "upd_test"
    /\ UNCHANGED <<memVars, buffer_ptr, pinOutput, EA, stack, regVars, pinVars, sent,
                   prevFrame, eaEntry, callVars, colVars>>

\* mutant: the loop leaves one byte early
Upd_test_short ==
    /\ pc = "upd_test"
    /\ pc' = IF i < 3 * WS2812_COUNT - 1 THEN "upd_call" ELSE "upd_int"
    /\ UNCHANGED <<memVars, buffer_ptr, pinOutput, EA, stack, i, regVars, pinVars, sent,
                   prevFrame, eaEntry, callVars, colVars>>

\* ... i < 3 * WS2812_COUNT; ...
Upd_test ==
    /\ pc = "upd_test"
    /\ pc' = IF i < 3 * WS2812_COUNT THEN "upd_call" ELSE "upd_int"
    /\ UNCHANGED <<memVars, buffer_ptr, pinOutput, EA, stack, i, regVars, pinVars, sent,
                   prevFrame, eaEntry, callVars, colVars>>

\* mutant: the pointer is not advanced
PostIncrement_stuck(ptr) == ptr

\* mutant: the byte is cleared once it has been fetched
Upd_call_consume ==
    /\ pc = "upd_call"
    /\ \E d \in Load(buffer_ptr) :
          /\ dpl' = d
          /\ sent' = Append(sent, d)
    /\ WS2812_buffer' = Store(WS2812_buffer, other, buffer_ptr, 0)[1]
    /\ other' = Store(WS2812_buffer, other, buffer_ptr, 0)[2]
    /\ buffer_ptr' = buffer_ptr + 1
    /\ stack' = <<"upd_inc">> \o stack
    /\ pc' = "sb_mov_r7"
    /\ UNCHANGED <<pinOutput, EA, i, acc, r7, cy, pinVars, prevFrame, eaEntry,
                   callVars, colVars>>

\* the pointer after buffer_ptr++
PostIncrement(ptr) == ptr + 1

\* WS2812_sendByte(*buffer_ptr++): the argument travels in dpl
Upd_call ==
    /\ pc = "upd_call"
    /\ \E d \in Load(buffer_ptr) :
          /\ dpl' = d
          /\ sent' = Append(sent, d)
    /\ buffer_ptr' = PostIncrement(buffer_ptr)
    /\ stack' = <<"upd_inc">> \o stack
    /\ pc' = "sb_mov_r7"
    /\ UNCHANGED <<memVars, pinOutput, EA, i, acc, r7, cy, pinVars, prevFrame, eaEntry,
                   callVars, colVars>>

\* ... i++)
Upd_inc ==
    /\ pc = "upd_inc"
    /\ i' = (i + 1) % 256
    /\ pc' = "upd_test"
    /\ UNCHANGED <<memVars, buffer_ptr, pinOutput, EA, stack, regVars, pinVars, sent,
                   prevFrame, eaEntry, callVars, colVars>>

\* interrupts();
Upd_interrupts ==
    /\ pc = "upd_int"
    /\ EA' = Interrupts
    /\ pc' = "upd_delay"
    /\ UNCHANGED <<memVars, buffer_ptr, pinOutput, stack, i, regVars, pinVars, sent,
                   prevFrame, eaEntry, callVars, colVars>>

\* delayMicroseconds(300);
Upd_delay ==
    /\ pc = "upd_delay"
    /\ sinceEdge' = DelayMicroseconds(LatchUs)
    /\ pc' = "upd_ret"
    /\ UNCHANGED <<memVars, buffer_ptr, pinOutput, WS2812_PIN_BIT, EA, stack, i, regVars,
                   symbols, rises, sent, prevFrame, sentBefore, eaEntry, callVars, colVars>>

\* the return at the closing brace
Upd_ret ==
    /\ pc = "upd_ret"
    /\ prevFrame' = symbols
    /\ Return
    /\ UNCHANGED <<memVars, buffer_ptr, pinOutput, EA, i, regVars, pinVars, sent, eaEntry,
                   callVars, colVars>>

WS2812_update ==
    \/ Upd_ptr
    \/ Upd_noInterrupts
    \/ Upd_for
    \/ Upd_test
    \/ Upd_call
    \/ Upd_inc
    \/ Upd_interrupts
    \/ Upd_delay
    \/ Upd_ret

----------------------------------------------------------------------------
(* The API as the caller uses it.  The caller is one context: it makes a   *)
(* call only from "idle", and transmits only once WS2812_init has made the *)
(* pin an output.                                                          *)

\* mutant: the loop stops one byte early
RECURSIVE ZeroFill_short(_, _)
ZeroFill_short(buf, k) ==
    IF k < 3 * WS2812_COUNT - 1
    THEN ZeroFill_short([buf EXCEPT ![k] = 0], (k + 1) % 256)
    ELSE buf

\* for(i = 0; i < 3 * WS2812_COUNT; i++) WS2812_buffer[i] = 0; in WS2812_clear
RECURSIVE ZeroFill(_, _)
ZeroFill(buf, k) ==
    IF k < 3 * WS2812_COUNT THEN ZeroFill([buf EXCEPT ![k] = 0], (k + 1) % 256) ELSE buf

\* mutant: the loop of WS2812_init stops one byte early
RECURSIVE InitFill_short(_, _)
InitFill_short(buf, k) ==
    IF k < 3 * WS2812_COUNT - 1
    THEN InitFill_short([buf EXCEPT ![k] = 0], (k + 1) % 256)
    ELSE buf

\* the same loop in WS2812_init
RECURSIVE InitFill(_, _)
InitFill(buf, k) ==
    IF k < 3 * WS2812_COUNT THEN InitFill([buf EXCEPT ![k] = 0], (k + 1) % 256) ELSE buf

\* mutant: the range check is off by one (pixel > WS2812_COUNT)
SetPixelMem_offByOne(buf, oth, pixel, r, g, b) ==
    IF pixel > WS2812_COUNT
    THEN <<buf, oth>>
    ELSE LET ptr == 3 * pixel
             s1 == Store(buf, oth, ptr, g)
             s2 == Store(s1[1], s1[2], ptr + 1, r)
         IN  Store(s2[1], s2[2], ptr + 2, b)

\* mutant: the channels are stored in argument order (red, green, blue)
SetPixelMem_rgb(buf, oth, pixel, r, g, b) ==
    IF pixel >= WS2812_COUNT
    THEN <<buf, oth>>
    ELSE LET ptr == 3 * pixel
             s1 == Store(buf, oth, ptr, r)
             s2 == Store(s1[1], s1[2], ptr + 1, g)
         IN  Store(s2[1], s2[2], ptr + 2, b)

\* memory after WS2812_setPixel(pixel, r, g, b)
SetPixelMem(buf, oth, pixel, r, g, b) ==
    IF pixel >= WS2812_COUNT
    THEN <<buf, oth>>
    ELSE LET ptr == 3 * pixel
             s1 == Store(buf, oth, ptr, g)
             s2 == Store(s1[1], s1[2], ptr + 1, r)
         IN  Store(s2[1], s2[2], ptr + 2, b)

WS2812_init ==
    /\ pc = "idle"
    /\ pinOutput' = TRUE
    /\ WS2812_PIN_BIT' = 0
    /\ sinceEdge' = IF WS2812_PIN_BIT = 0 THEN sinceEdge ELSE 0
    /\ WS2812_buffer' = InitFill(WS2812_buffer, 0)
    /\ prevFrame' = <<>>
    /\ lastCall' = <<"init">>
    /\ bufBefore' = WS2812_buffer
    /\ UNCHANGED colVars
    /\ UNCHANGED <<other, buffer_ptr, EA, pc, stack, i, regVars, symbols, rises, sent, sentBefore,
                   eaEntry>>

WS2812_setPixel(pixel, r, g, b) ==
    /\ pc = "idle"
    /\ LET m == SetPixelMem(WS2812_buffer, other, pixel, r, g, b)
       IN  /\ WS2812_buffer' = m[1]
           /\ other' = m[2]
           /\ prevFrame' = IF m = <<WS2812_buffer, other>> /\ pixel >= WS2812_COUNT
                           THEN prevFrame ELSE <<>>
    /\ lastCall' = <<"setPixel", pixel, r, g, b>>
    /\ bufBefore' = WS2812_buffer
    /\ UNCHANGED colVars
    /\ UNCHANGED <<buffer_ptr, pinOutput, EA, pc, stack, i, regVars, pinVars, sent, eaEntry>>

\* the call of WS2812_update() by the caller
Call_update ==
    /\ pc = "idle"
    /\ pinOutput
    /\ stack' = <<"idle">> \o stack
    /\ pc' = "upd_ptr"
    /\ lastCall' = <<"update">>
    /\ bufBefore' = WS2812_buffer
    /\ UNCHANGED colVars
    /\ UNCHANGED <<memVars, buffer_ptr, pinOutput, EA, i, regVars, pinVars, sent, prevFrame,
                   eaEntry>>

\* mutant: WS2812_clear calls WS2812_update before its loop has cleared the buffer
WS2812_clear_updateFirst ==
    /\ pc = "idle"
    /\ pinOutput
    /\ stack' = <<"clear_ret", "idle">> \o stack
    /\ pc' = "upd_ptr"
    /\ lastCall' = <<"clear">>
    /\ bufBefore' = WS2812_buffer
    /\ UNCHANGED colVars
    /\ UNCHANGED <<memVars, buffer_ptr, pinOutput, EA, i, regVars, pinVars, sent, prevFrame,
                   eaEntry>>

\* mutant: WS2812_clear only zero-fills and returns
WS2812_clear_noUpdate ==
    /\ pc = "idle"
    /\ pinOutput
    /\ WS2812_buffer' = ZeroFill(WS2812_buffer, 0)
    /\ prevFrame' = <<>>
    /\ lastCall' = <<"clear">>
    /\ bufBefore' = WS2812_buffer
    /\ UNCHANGED colVars
    /\ UNCHANGED <<other, buffer_ptr, pinOutput, EA, pc, stack, i, regVars, pinVars, sent,
                   eaEntry>>

\* WS2812_clear() up to and including its call of WS2812_update()
WS2812_clear ==
    /\ pc = "idle"
    /\ pinOutput
    /\ WS2812_buffer' = ZeroFill(WS2812_buffer, 0)
    /\ prevFrame' = <<>>
    /\ stack' = <<"clear_ret", "idle">> \o stack
    /\ pc' = "upd_ptr"
    /\ lastCall' = <<"clear">>
    /\ bufBefore' = WS2812_buffer
    /\ UNCHANGED colVars
    /\ UNCHANGED <<other, buffer_ptr, pinOutput, EA, i, regVars, pinVars, sent, eaEntry>>

\* the return of WS2812_clear
Clear_ret ==
    /\ pc = "clear_ret"
    /\ Return
    /\ UNCHANGED <<memVars, buffer_ptr, pinOutput, EA, i, regVars, pinVars, sent, prevFrame,
                   eaEntry, callVars, colVars>>

\* WS2812_show() up to and including its call of WS2812_update()
WS2812_show ==
    /\ pc = "idle"
    /\ pinOutput
    /\ stack' = <<"show_ret", "idle">> \o stack
    /\ pc' = "upd_ptr"
    /\ lastCall' = <<"show">>
    /\ bufBefore' = WS2812_buffer
    /\ UNCHANGED colVars
    /\ UNCHANGED <<memVars, buffer_ptr, pinOutput, EA, i, regVars, pinVars, sent, prevFrame,
                   eaEntry>>

\* the return of WS2812_show
Show_ret ==
    /\ pc = "show_ret"
    /\ Return
    /\ UNCHANGED <<memVars, buffer_ptr, pinOutput, EA, i, regVars, pinVars, sent, prevFrame,
                   eaEntry, callVars, colVars>>

\* the caller runs noInterrupts() or interrupts() itself between two calls
Caller_setEA ==
    /\ pc = "idle"
    /\ EA' = IF EA = 1 THEN NoInterrupts ELSE Interrupts
    /\ UNCHANGED <<memVars, buffer_ptr, pinOutput, pc, stack, i, regVars, pinVars, sent,
                   prevFrame, eaEntry, callVars, colVars>>

\* an interrupt is served: possible between any two instructions while EA is set,
\* and the main context loses IsrCycles
Interrupt ==
    /\ EA = 1
    /\ sinceEdge' = Tick(IsrCycles)
    /\ UNCHANGED <<memVars, buffer_ptr, pinOutput, WS2812_PIN_BIT, EA, pc, stack, i, regVars,
                   symbols, rises, sent, prevFrame, sentBefore, eaEntry, callVars, colVars>>

Next ==
    \/ WS2812_init
    \/ \E p \in PixelArgs, c \in Colors : WS2812_setPixel(p, c[1], c[2], c[3])
    \/ Call_update
    \/ WS2812_update
    \/ WS2812_sendByte
    \/ WS2812_clear
    \/ Clear_ret
    \/ WS2812_show
    \/ Show_ret
    \/ Caller_setEA
    \/ Interrupt

Spec == Init /\ [][Next]_vars

(* The processor keeps executing the function it is in: every step of       *)
(* WS2812_update, WS2812_sendByte and of the returns is eventually taken.   *)
(* The caller is not obliged to make another call.                          *)
SpecLive ==
    Spec /\ WF_vars(WS2812_update \/ WS2812_sendByte \/ Clear_ret \/ Show_ret)

----------------------------------------------------------------------------
(* WS2812_sendByte on its own: called as WS2812_update calls it (interrupts *)
(* off, line LOW, pin an output) with every byte value; the registers it    *)
(* does not load hold whatever the caller left in them.                     *)

InitByte ==
    /\ WS2812_buffer = Zeros
    /\ other = {}
    /\ buffer_ptr = 1
    /\ pinOutput = TRUE
    /\ WS2812_PIN_BIT = 0
    /\ EA = 0
    /\ pc = "sb_mov_r7"
    /\ stack = <<"done">>
    /\ i = 0
    /\ acc \in {0, 255} /\ r7 \in {0, 255} /\ cy \in {0, 1}
    /\ dpl \in 0..255
    /\ sinceEdge = LatchCycles
    /\ symbols = <<>>
    /\ rises = 0
    /\ sent = <<dpl>>
    /\ prevFrame = <<>>
    /\ sentBefore = FALSE
    /\ eaEntry = 1
    /\ lastCall = <<"update">>
    /\ bufBefore = Zeros
    /\ color = <<0, 0, 0>>
    /\ palRead = -1

SpecByte == InitByte /\ [][WS2812_sendByte]_vars

----------------------------------------------------------------------------
(* WS2812_init followed directly by a transmit, from every buffer content   *)
(* that calls of WS2812_setPixel made before WS2812_init can have left.     *)

\* the buffer after setPixel(0, c0), setPixel(1, c1), setPixel(2, c2) on a zero buffer
BufferOf(c0, c1, c2) ==
    LET m0 == SetPixelMem(Zeros, {}, 0, c0[1], c0[2], c0[3])
        m1 == SetPixelMem(m0[1], m0[2], 1, c1[1], c1[2], c1[3])
    IN  SetPixelMem(m1[1], m1[2], 2, c2[1], c2[2], c2[3])[1]

PriorBuffers ==
    {BufferOf(c0, c1, c2) : c0, c1, c2 \in Colors \cup {<<0, 0, 0>>}}

InitPrior ==
    /\ WS2812_buffer \in PriorBuffers
    /\ other = {}
    /\ buffer_ptr = -1
    /\ pinOutput = FALSE
    /\ WS2812_PIN_BIT \in {0, 1}
    /\ EA \in {0, 1}
    /\ pc = "idle"
    /\ stack = <<>>
    /\ i = 0
    /\ acc = 0 /\ r7 = 0 /\ cy = 0 /\ dpl = 0
    /\ sinceEdge = 0
    /\ symbols = <<>>
    /\ rises = 0
    /\ sent = <<>>
    /\ prevFrame = <<>>
    /\ sentBefore = FALSE
    /\ eaEntry = 1
    /\ lastCall = <<"reset">>
    /\ bufBefore = Zeros
    /\ color = <<0, 0, 0>>
    /\ palRead = -1

NextInit ==
    \/ lastCall = <<"reset">> /\ WS2812_init
    \/ lastCall = <<"init">> /\ Call_update
    \/ WS2812_update
    \/ WS2812_sendByte

SpecInit == InitPrior /\ [][NextInit]_vars

----------------------------------------------------------------------------
(* src/led_colors.h: getColor(color_index, brightness, &r, &g, &b) as a     *)
(* function of its two uint8_t inputs, in the 16-bit int arithmetic of the  *)
(* target.  lastCall holds the call, color the three bytes written.         *)

COLOR_PALETTE == << <<0, 0, 0>>, <<100, 0, 0>>, <<0, 100, 0>>, <<0, 0, 100>>,
                    <<100, 80, 0>>, <<0, 100, 100>>, <<100, 0, 100>>, <<100, 100, 100>> >>

\* a value as a signed 16-bit int
Int16(x) == LET m == x % 65536 IN IF m >= 32768 THEN m - 65536 ELSE m

\* C division, truncating toward zero
TruncDiv(a, b) == IF a >= 0 THEN a \div b ELSE -((-a) \div b)

\* mutant: the scaling shifts right by 8 instead of dividing by 255
ApplyBrightness_shift(ch, brightness) == (TruncDiv(Int16(ch * brightness), 256)) % 256

\* *r = (*r * brightness) / 255; for one channel
ApplyBrightness(ch, brightness) == (TruncDiv(Int16(ch * brightness), 255)) % 256

\* mutant: the range check is off by one (color_index > 8)
ClampIndex_offByOne(color_index) == IF color_index > 8 THEN 0 ELSE color_index

\* if(color_index > 7) color_index = 0;
ClampIndex(color_index) == IF color_index > 7 THEN 0 ELSE color_index

\* the values COLOR_PALETTE[idx] can read: past the table, whatever follows it
PaletteAt(idx) ==
    IF idx \in 0..7 THEN {COLOR_PALETTE[idx + 1]} ELSE {<<0, 0, 0>>, <<255, 255, 255>>}

\* the pixels getColor(color_index, brightness) can return
GetColorResults(color_index, brightness) ==
    {<<ApplyBrightness(base[1], brightness), ApplyBrightness(base[2], brightness),
       ApplyBrightness(base[3], brightness)>> : base \in PaletteAt(ClampIndex(color_index))}

getColor ==
    /\ pc = "getColor"
    /\ color' \in GetColorResults(lastCall[2], lastCall[3])
    /\ palRead' = ClampIndex(lastCall[2])
    /\ pc' = "done"
    /\ UNCHANGED <<memVars, buffer_ptr, pinOutput, EA, stack, i, regVars, pinVars, sent,
                   prevFrame, eaEntry, callVars>>

InitColor ==
    /\ WS2812_buffer = Zeros
    /\ other = {}
    /\ buffer_ptr = -1
    /\ pinOutput = FALSE
    /\ WS2812_PIN_BIT = 0
    /\ EA = 1
    /\ pc = "getColor"
    /\ stack = <<>>
    /\ i = 0
    /\ acc = 0 /\ r7 = 0 /\ cy = 0 /\ dpl = 0
    /\ sinceEdge = 0
    /\ symbols = <<>>
    /\ rises = 0
    /\ sent = <<>>
    /\ prevFrame = <<>>
    /\ sentBefore = FALSE
    /\ eaEntry = 1
    /\ \E color_index \in 0..255, brightness \in 0..255 :
          lastCall = <<"getColor", color_index, brightness>>
    /\ bufBefore = Zeros
    /\ color \in {<<0, 0, 0>>, <<255, 255, 255>>}
    /\ palRead = -1

SpecColor == InitColor /\ [][getColor]_vars

----------------------------------------------------------------------------
(* Properties *)

InUpdate == pc \in UpdLabels \cup SbLabels

\* the buffer as the sequence of its bytes
BufferSeq == [k \in 1..BufLen |-> WS2812_buffer[k - 1]]

\* HIGH time of a 0 symbol: the pin falls at mov _WS2812_PIN_BIT, c
HighShort == CLK.movc

\* HIGH time of a 1 symbol: the pin falls at clr _WS2812_PIN_BIT
HighLong == CLK.movc + 6 * CLK.nop + CLK.clr

PulseHigh(b) == IF b = 1 THEN HighLong ELSE HighShort

\* C1: while WS2812_update runs (past its first statement, where the record of the
\* frame starts), the bytes handed to WS2812_sendByte so far are
\* WS2812_buffer[0], WS2812_buffer[1], ... in increasing order; when it returns,
\* exactly 9 bytes (72 symbols) were emitted, the k-th being WS2812_buffer[k]; and
\* for the buffer that init then setPixel(1, 100, 0, 0) leave, the bytes are
\* [0,0,0], [0,100,0], [0,0,0].
C1_TransmitOrder ==
    /\ (InUpdate /\ pc # "upd_ptr") =>
          /\ Len(sent) <= BufLen
          /\ \A k \in 1..Len(sent) : sent[k] = WS2812_buffer[k - 1]
    /\ pc = "upd_ret" =>
          /\ sent = BufferSeq
          /\ Len(symbols) = FrameBits
          /\ (WS2812_buffer = SetPixelMem(Zeros, {}, 1, 100, 0, 0)[1]
                 => sent = <<0, 0, 0, 0, 100, 0, 0, 0, 0>>)

C1_Witness ==
    /\ pc = "upd_ret"
    /\ lastCall = <<"update">>
    /\ sent = <<0, 0, 0, 0, 100, 0, 0, 0, 0>>

\* C2: WS2812_sendByte(d) emits exactly 8 symbols, and the symbol number k (0..7)
\* is a long HIGH pulse when bit 7 - k of d is 1 and a short one when it is 0
\* (most significant bit first); a short pulse is shorter than a long one.
C2_MsbFirst ==
    /\ HighShort < HighLong
    /\ Len(symbols) <= 8
    /\ \A k \in 1..Len(symbols) : symbols[k] = PulseHigh(Bit(sent[1], 8 - k))
    /\ pc = "done" => Len(symbols) = 8

C2_Witness ==
    /\ pc = "done"
    /\ sent = <<100>>
    /\ symbols = <<HighShort, HighLong, HighLong, HighShort,
                   HighShort, HighLong, HighShort, HighShort>>

\* between the rising edge of the first symbol and the falling edge of the last
InFrame ==
    /\ InUpdate
    /\ \/ WS2812_PIN_BIT = 1
       \/ symbols # <<>> /\ Len(symbols) < FrameBits

\* C3: in every state of WS2812_update between the rising edge of the first bit
\* symbol and the falling edge of the last one, interrupts are disabled, so no
\* interrupt can be served there.
C3_NoInterruptInFrame == InFrame => (EA = 0 /\ ~ENABLED Interrupt)

C3_Witness ==
    /\ InFrame
    /\ eaEntry = 1
    /\ Len(symbols) = 40
    /\ WS2812_PIN_BIT = 1

\* C4: when WS2812_update returns, the interrupt-enable flag equals the value it
\* had when WS2812_update was entered.
C4_RestoresEntryState == pc = "upd_ret" => EA = eaEntry

\* C5: the first rising edge of a transmission that follows an earlier one comes
\* only after the line has been LOW for at least 300 us (4800 cycles) without
\* a break.
C5_LatchBeforeNextFrame ==
    [][(WS2812_PIN_BIT = 0 /\ WS2812_PIN_BIT' = 1 /\ sentBefore /\ symbols = <<>>)
          => sinceEdge >= LatchCycles]_vars

C5_Witness ==
    /\ sentBefore
    /\ symbols = <<>>
    /\ WS2812_PIN_BIT = 1
    /\ pc = "sb_movc"

\* C6: after WS2812_setPixel(p, r, g, b) with p >= WS2812_COUNT the 9 bytes of the
\* buffer are what they were before the call, and nothing outside the buffer was
\* written.
C6_OutOfRangeIgnored ==
    (lastCall[1] = "setPixel" /\ lastCall[2] >= WS2812_COUNT)
        => (WS2812_buffer = bufBefore /\ other = {})

C6_Witness ==
    /\ lastCall[1] = "setPixel"
    /\ lastCall[2] = WS2812_COUNT
    /\ WS2812_buffer # Zeros

\* C7: after WS2812_setPixel(p, r, g, b) with p < WS2812_COUNT the buffer holds
\* g, r, b at 3p, 3p+1, 3p+2, every other byte is what it was before the call, and
\* nothing outside the buffer was written.
C7_SetPixelWireOrder ==
    (lastCall[1] = "setPixel" /\ lastCall[2] < WS2812_COUNT)
        => LET p == lastCall[2]
               r == lastCall[3]
               g == lastCall[4]
               b == lastCall[5]
           IN  /\ WS2812_buffer[3 * p] = g
               /\ WS2812_buffer[3 * p + 1] = r
               /\ WS2812_buffer[3 * p + 2] = b
               /\ \A k \in 0..(BufLen - 1) :
                     k \notin {3 * p, 3 * p + 1, 3 * p + 2}
                         => WS2812_buffer[k] = bufBefore[k]
               /\ other = {}

C7_Witness ==
    /\ lastCall = <<"setPixel", 1, 1, 128, 255>>
    /\ WS2812_buffer[3] = 128 /\ WS2812_buffer[4] = 1 /\ WS2812_buffer[5] = 255
    /\ WS2812_buffer[0] = 0 /\ WS2812_buffer[1] = 100
    /\ bufBefore[4] = 100

\* C8: from the call of WS2812_clear on, whatever the buffer held before, all 9
\* buffer bytes are 0.
C8_ClearZeroes == lastCall = <<"clear">> => WS2812_buffer = Zeros

C8_Witness ==
    /\ lastCall = <<"clear">>
    /\ pc = "idle"
    /\ \A k \in 0..(BufLen - 1) : bufBefore[k] # 0

\* C9 as stated: while WS2812_clear runs, no bit symbol is emitted, the line does
\* not move and the interrupt-enable flag is not touched.
C9_ClearDoesNotTransmit ==
    [][(lastCall' = <<"clear">> /\ pc' # "idle")
          => /\ Len(symbols') <= Len(symbols)
             /\ WS2812_PIN_BIT' = WS2812_PIN_BIT
             /\ EA' = EA]_vars

\* C9 amended: WS2812_clear changes the Frame Buffer and no other memory, and it
\* transmits itself: when it returns, one full frame of 72 symbols, the nine zero
\* bytes of the cleared buffer, has been emitted and interrupts are enabled.
C9_ClearTransmits ==
    (lastCall = <<"clear">> /\ pc \in {"clear_ret", "idle"})
        => /\ Len(symbols) = FrameBits
           /\ sent = [k \in 1..BufLen |-> 0]
           /\ other = {}
           /\ (pc = "clear_ret" => EA = 1)

C9_Witness ==
    /\ lastCall = <<"clear">>
    /\ pc = "clear_ret"
    /\ bufBefore # Zeros
    /\ Len(symbols) = FrameBits

\* C10: a WS2812_update that follows another one with no buffer write in between
\* emits the same sequence of symbols as the one before: at every point of the
\* second call the symbols emitted so far are the first symbols of the earlier
\* frame, and when it returns all 72 are the same.
C10_Idempotent ==
    (InUpdate /\ pc # "upd_ptr" /\ prevFrame # <<>>)
        => /\ Len(symbols) <= Len(prevFrame)
           /\ \A k \in 1..Len(symbols) : symbols[k] = prevFrame[k]
           /\ pc = "upd_ret" => (symbols = prevFrame /\ Len(symbols) = FrameBits)

C10_Witness ==
    /\ pc = "upd_ret"
    /\ prevFrame # <<>>
    /\ symbols = prevFrame
    /\ WS2812_buffer[8] = 255
    /\ WS2812_buffer[0] = 0

\* C11: after WS2812_init, whatever the buffer held before, all 9 buffer bytes are
\* 0 and the line is LOW; the transmit that directly follows emits only zero
\* symbols, 72 of them when it returns.
C11_InitAllOff ==
    /\ lastCall # <<"reset">> => (WS2812_buffer = Zeros /\ pinOutput)
    /\ lastCall = <<"init">> => WS2812_PIN_BIT = 0
    /\ \A k \in 1..Len(symbols) : symbols[k] = HighShort
    /\ pc = "upd_ret" => Len(symbols) = FrameBits

C11_Witness ==
    /\ pc = "upd_ret"
    /\ lastCall = <<"update">>
    /\ WS2812_buffer = Zeros
    /\ Len(symbols) = FrameBits
    /\ WS2812_PIN_BIT = 0

\* cycles of one pass of the bit loop that jumps back, by the documented counts
BitPeriod ==
    CLK.rlc + CLK.setb + CLK.movc + 6 * CLK.nop + CLK.clr + 2 * CLK.nop + CLK.djnz_loop

\* the bit the last completed symbol of the byte in progress encodes
LastBit == Bit(sent[Len(sent)], 8 - (Len(symbols) % 8))

RisingEdge == WS2812_PIN_BIT = 0 /\ WS2812_PIN_BIT' = 1

FallingEdge == WS2812_PIN_BIT = 1 /\ WS2812_PIN_BIT' = 0

\* C12: inside WS2812_sendByte the cycles from the rising edge of one bit to the
\* rising edge of the next are the same number whether the bit is 0 or 1; only
\* the HIGH part differs, and the HIGH time of a 0 is strictly shorter than that
\* of a 1.
C12_FixedBitPeriod ==
    [][/\ (RisingEdge /\ symbols # <<>>)
             => symbols[Len(symbols)] + sinceEdge + CLK.setb = BitPeriod
       /\ FallingEdge => symbols'[Len(symbols')] = PulseHigh(cy)
       /\ HighShort < HighLong]_vars

C12_Witness ==
    /\ pc = "sb_movc"
    /\ WS2812_PIN_BIT = 1
    /\ Len(symbols) = 3
    /\ symbols[1] = HighLong
    /\ symbols[2] = HighShort
    /\ symbols[3] = HighLong

\* HIGH time of a pulse of c cycles, in tenths of a nanosecond
HighTenthNs(c) == c * (10000 \div CyclesPerUs)

\* C13: at 16 MHz the HIGH time of every 0 symbol lies within 400 ns +/- 150 ns
\* and the HIGH time of every 1 symbol within 800 ns +/- 150 ns.
C13_HighWithinTolerance ==
    \A k \in 1..Len(symbols) :
        LET nominal == IF Bit(sent[1], 8 - k) = 1 THEN T1H_ns ELSE T0H_ns
            h == HighTenthNs(symbols[k])
        IN  /\ 10 * (nominal - TolHigh_ns) <= h
            /\ h <= 10 * (nominal + TolHigh_ns)

\* C16: by the documented cycle counts every bit takes 18 cycles: a 1 is HIGH
\* for 10 cycles then LOW for 8, a 0 is HIGH for 4 cycles then LOW for 14.
C16_DocumentedCycles ==
    [][(RisingEdge /\ symbols # <<>>)
          => LET h == symbols[Len(symbols)]
                 l == sinceEdge + CLK.setb
             IN  /\ h + l = DocBitCycles
                 /\ LastBit = 1 => (h = DocT1H /\ l = DocT1L)
                 /\ LastBit = 0 => (h = DocT0H /\ l = DocT0L)]_vars

\* C14: for every color index 0..7 and every brightness 0..255 each channel
\* getColor returns is floor(paletteChannel * brightness / 255), and the product
\* fits the 16-bit int; palette (100,0,0) at 128 gives (50,0,0), brightness 1 gives
\* 0 for a channel of 100, brightness 0 gives (0,0,0), brightness 255 gives the
\* palette entry.
C14_BrightnessScaling ==
    (pc = "done" /\ lastCall[1] = "getColor" /\ lastCall[2] <= 7)
        => LET pal == COLOR_PALETTE[lastCall[2] + 1]
               brightness == lastCall[3]
           IN  /\ \A c \in 1..3 :
                     /\ pal[c] * brightness <= 2 ^ 15 - 1
                     /\ color[c] = (pal[c] * brightness) \div 255
               /\ (lastCall[2] = 1 /\ brightness = 128) => color = <<50, 0, 0>>
               /\ (lastCall[2] = 1 /\ brightness = 1) => color = <<0, 0, 0>>
               /\ brightness = 0 => color = <<0, 0, 0>>
               /\ brightness = 255 => color = pal

C14_Witness ==
    /\ pc = "done"
    /\ lastCall = <<"getColor", 1, 128>>
    /\ color = <<50, 0, 0>>

\* C15: for every color index 8..255 and every brightness getColor returns what
\* getColor(0, brightness) returns, which is (0,0,0), and COLOR_PALETTE is never
\* read outside 0..7.
C15_IndexCoercedToOff ==
    /\ palRead \in (0..7) \cup {-1}
    /\ (pc = "done" /\ lastCall[1] = "getColor" /\ lastCall[2] > 7)
          => /\ color \in GetColorResults(0, lastCall[3])
             /\ color = <<0, 0, 0>>
             /\ palRead = 0

C15_Witness ==
    /\ pc = "done"
    /\ lastCall = <<"getColor", 9, 255>>
    /\ color = <<0, 0, 0>>
    /\ palRead = 0

\* C17: WS2812_update and WS2812_show only read the Frame Buffer: during and after
\* such a call all 9 bytes are what they were when it was made; the buffer
\* changes only in a step of WS2812_init, WS2812_setPixel or WS2812_clear.
C17_UpdateReadsOnly ==
    [][/\ WS2812_buffer' # WS2812_buffer
             => (pc = "idle" /\ lastCall'[1] \in {"init", "setPixel", "clear"})
       /\ lastCall' \in {<<"update">>, <<"show">>}
             => (WS2812_buffer' = bufBefore' /\ other' = other)]_vars

C17_Witness ==
    /\ pc = "idle"
    /\ lastCall = <<"show">>
    /\ Len(symbols) = FrameBits
    /\ WS2812_buffer[8] = 255
    /\ WS2812_buffer = bufBefore

\* C18: every call of WS2812_update eventually reaches its return; it leaves only
\* through that return, and there it has emitted exactly 72 symbols (all 9 bytes)
\* followed by the latch delay, with the line LOW.
C18_RunsToCompletion ==
    /\ [](pc = "upd_ret" => /\ Len(symbols) = FrameBits
                            /\ Len(sent) = BufLen
                            /\ sinceEdge = LatchCycles
                            /\ WS2812_PIN_BIT = 0)
    /\ [][(InUpdate /\ ~InUpdate') => pc = "upd_ret"]_vars
    /\ (pc = "upd_ptr") ~> (pc = "upd_ret")

C18_Witness ==
    /\ pc = "upd_ret"
    /\ Len(symbols) = FrameBits
    /\ sinceEdge = LatchCycles
    /\ WS2812_buffer[0] # 0

\* C19: WS2812_clear clears, then transmits: while and after it transmits every
\* buffer byte is 0, every symbol of its frame is a zero symbol, and the frame
\* has 72 symbols when WS2812_clear returns, whatever the buffer held before.
C19_ClearThenShow ==
    lastCall = <<"clear">>
        => /\ InUpdate => WS2812_buffer = Zeros
           /\ pc # "upd_ptr" => \A k \in 1..Len(symbols) : symbols[k] = HighShort
           /\ pc = "clear_ret" => (Len(symbols) = FrameBits /\ rises = FrameBits)

C19_Witness ==
    /\ lastCall = <<"clear">>
    /\ pc = "clear_ret"
    /\ \A k \in 0..(BufLen - 1) : bufBefore[k] # 0
    /\ Len(symbols) = FrameBits
    /\ symbols[1] = HighShort /\ symbols[FrameBits] = HighShort

\* where the line is HIGH: from the completion of setb to the completion of clr
HighLabels == {"sb_movc", "sb_nop1", "sb_nop2", "sb_nop3", "sb_nop4", "sb_nop5", "sb_nop6",
               "sb_clr"}

\* C20: once WS2812_init has run, the line is HIGH only inside a bit symbol (between
\* setb and clr of WS2812_sendByte) and LOW everywhere else; rising and falling
\* edges alternate, one of each per symbol; one transmit makes exactly 72 pulses.
C20_PulseShape ==
    pinOutput
        => /\ WS2812_PIN_BIT = 1 => pc \in HighLabels
           /\ pc = "sb_movc" => WS2812_PIN_BIT = 1
           /\ rises = Len(symbols) + WS2812_PIN_BIT
           /\ pc = "upd_ret" => (rises = FrameBits /\ Len(symbols) = FrameBits)

C20_Witness ==
    /\ pinOutput
    /\ pc = "sb_nop7"
    /\ WS2812_PIN_BIT = 0
    /\ rises = 40
    /\ Len(symbols) = 40
    /\ symbols[40] = HighLong

====
